---- MODULE Spec2Model ----
(***************************************************************************)
(* dnd-companion: the cache-aside resolver of reference entries (spells,   *)
(* items) and the character/entry association manager.                     *)
(*                                                                         *)
(* The repository holds two generations of the same service:               *)
(*   "helper"  routes/helpers.py + utils/dnd_api_client.py +               *)
(*             repositories/* + backend/routes/characters.py               *)
(*   "legacy"  routes/spells.py, routes/items.py, routes/characters.py     *)
(*   "backend" the helper generation with the asynchronous client of       *)
(*             backend/utils/dnd_api_client.py                             *)
(* A deployment runs one of them; `variant` is fixed by Init.              *)
(*                                                                         *)
(* Names and external ids are sequences of one-character strings.          *)
(***************************************************************************)
EXTENDS Integers, Sequences, FiniteSets, TLC

VARIABLES
    variant,        \* which generation of the code is deployed
    DEEPL_API_KEY,  \* TRUE iff the DeepL credential is configured
    store,          \* kind -> set of rows of the spells / items table
    cache,          \* the class list the process keeps between requests
    nextId,         \* kind -> next value of the table's id sequence
    chars,          \* rows of the characters table
    nextCharId,     \* next value of characters.id
    links,          \* kind -> rows of character_spells / character_items
    req,            \* worker -> the request it is serving, with its locals
    resolved,       \* history: kind -> external id -> local id last returned
    n1, n2,         \* normalisation harness: the two input names
    norm            \* normalisation harness: the computed external ids

vars == <<variant, DEEPL_API_KEY, cache, store, nextId, chars, nextCharId, links, req,
          resolved, n1, n2, norm>>

(***************************************************************************)
(* Bounds                                                                  *)
(***************************************************************************)
MaxId == 2          \* rows ever inserted per reference table
MaxChars == 1       \* characters ever created
MaxLen == 3         \* length of the generated names of the normalisation harness

Workers == {"w1", "w2"}
Users == {1, 2}
Kinds == {"spell", "item"}
Variants == {"helper", "legacy", "backend"}

(***************************************************************************)
(* Characters and names                                                    *)
(***************************************************************************)
LowerLetters ==
    {"a","b","c","d","e","f","g","h","i","j","k","l","m",
     "n","o","p","q","r","s","t","u","v","w","x","y","z"}
Digits == {"0","1","2","3","4","5","6","7","8","9"}

\* str.lower() on the characters the model uses
LowerChar(c) ==
    CASE c = "B" -> "b" [] c = "E" -> "e" [] c = "F" -> "f" [] c = "I" -> "i"
      [] c = "L" -> "l" [] c = "O" -> "o" [] c = "R" -> "r" [] c = "T" -> "t"
      [] OTHER -> c

lower(s) == [i \in DOMAIN s |-> LowerChar(s[i])]

\* str.replace(" ", "-")
replace_space(s) == [i \in DOMAIN s |-> IF s[i] = " " THEN "-" ELSE s[i]]

\* utils/dnd_api_client.py: name.lower().replace(" ", "-")
normalize_name(name) == replace_space(lower(name))

IsAlnum(c) == c \in LowerLetters \cup Digits

RECURSIVE DropNonAlnum(_)
DropNonAlnum(s) ==
    IF s = <<>> \/ IsAlnum(Head(s)) THEN s ELSE DropNonAlnum(Tail(s))

\* re.sub(r'[^a-z0-9]+', '-', s): each maximal run becomes one hyphen
RECURSIVE re_sub(_)
re_sub(s) ==
    IF s = <<>> THEN <<>>
    ELSE IF IsAlnum(Head(s)) THEN <<Head(s)>> \o re_sub(Tail(s))
    ELSE <<"-">> \o re_sub(DropNonAlnum(Tail(s)))

RECURSIVE lstrip(_)
lstrip(s) == IF s # <<>> /\ Head(s) = "-" THEN lstrip(Tail(s)) ELSE s

RECURSIVE rstrip(_)
rstrip(s) ==
    IF s # <<>> /\ s[Len(s)] = "-" THEN rstrip(SubSeq(s, 1, Len(s) - 1)) ELSE s

\* str.strip('-')
strip(s) == rstrip(lstrip(s))

\* routes/spells.py, routes/items.py:
\* re.sub(r'[^a-z0-9]+', '-', name.lower()).strip('-')
_normalize_spell_name(name) == strip(re_sub(lower(name)))

\* the normaliser the deployed generation applies to a requested name
Normalize(v, name) ==
    IF v = "legacy" THEN _normalize_spell_name(name) ELSE normalize_name(name)

(***************************************************************************)
(* The remote reference API and the translator (external collaborators)    *)
(***************************************************************************)
IdFB == <<"f", "-", "b">>           \* a slug the remote catalogue knows
NameFB == <<"F", " ", "b">>         \* the English name of that entry

\* the names clients ask for: two spellings of the entry, one with a doubled space
RequestNames == {NameFB, <<"f", "-", "B">>, <<"f", " ", " ", "b">>}
ExternalIds == {Normalize(v, n) : v \in Variants, n \in RequestNames}

NoPayload == [index |-> <<>>, name |-> <<>>]
Catalogue == [spells |-> {[index |-> IdFB, name |-> NameFB]},
              equipment |-> {[index |-> IdFB, name |-> NameFB]}]

\* the endpoint of each kind: .../api/spells/..., .../api/equipment/...
Endpoint(kind) == IF kind = "spell" THEN "spells" ELSE "equipment"

\* the URL a miss requests.  routes/spells.py builds it from a plain string,
\* not an f-string, so the text {spell_index} is sent as it stands.
FetchUrl(v, kind, name_normalized) ==
    [endpoint |-> Endpoint(kind),
     id |-> IF v = "legacy" /\ kind = "spell" THEN <<"{spell_index}">>
            ELSE name_normalized]

Refused == 0      \* the connection fails: the client raises at once
Silent == -1      \* the connection is accepted and nothing ever comes back
Blocked == -2     \* outcome of a fetch: the handler waits forever

\* what GET url can answer: the document whose index is the last path segment,
\* 404 when there is none, a server error, a refused connection, or silence
RemoteResponses(url) ==
    LET docs == {d \in Catalogue[url.endpoint] : d.index = url.id} IN
    (IF docs = {} THEN {[status |-> 404, body |-> NoPayload]}
     ELSE {[status |-> 200, body |-> d] : d \in docs})
    \cup {[status |-> 500, body |-> NoPayload], [status |-> Refused, body |-> NoPayload],
          [status |-> Silent, body |-> NoPayload]}

NotFoundCode(kind) == IF kind = "spell" THEN "SPELL_NOT_FOUND" ELSE "ITEM_NOT_FOUND"
AlreadyExistsCode(kind) ==
    IF kind = "spell" THEN "SPELL_ALREADY_EXISTS" ELSE "ITEM_ALREADY_EXISTS"

\* a client that reports every failed fetch as "unavailable"
FetchOutcomeAllUnavailable(v, kind, resp) ==
    IF resp.status = 200 THEN [status |-> 0, code |-> ""]
    ELSE [status |-> 503, code |-> IF v # "legacy" THEN "SERVICE_UNAVAILABLE" ELSE ""]

\* requests.get(url, timeout=REQUEST_TIMEOUT) / httpx.AsyncClient(timeout=...)
\* in the helper and backend clients; requests.get(url) in routes/spells.py
\* and routes/items.py
HasTimeout(v) == v # "legacy"

\* fetch_details_from_dnd_api and the caller's "if not api_data": the HTTP
\* answer the request ends with, status 0 to go on with the payload, or
\* Blocked when the call never returns
FetchOutcome(v, kind, resp) ==
    CASE resp.status = 200 -> [status |-> 0, code |-> ""]
      [] resp.status = 404 ->
            [status |-> 404, code |-> IF v # "legacy" THEN NotFoundCode(kind) ELSE ""]
      [] resp.status = Refused ->
            [status |-> 503, code |-> IF v # "legacy" THEN "SERVICE_UNAVAILABLE" ELSE ""]
      [] resp.status = Silent ->
            IF HasTimeout(v)
            THEN [status |-> 503, code |-> IF v # "legacy" THEN "SERVICE_UNAVAILABLE" ELSE ""]
            ELSE [status |-> Blocked, code |-> ""]
      [] OTHER ->    \* helper, backend: "raise e", an HTTPError nobody handles
            IF v # "legacy" THEN [status |-> 500, code |-> ""]
            ELSE [status |-> 503, code |-> ""]

\* what one round of calls to the translator meets: it answers, the
\* connection fails or times out, or it answers with an error status
TranslatorAnswers == {"ok", "down", "error"}

\* translate_text_with_deepl: the text one call returns
Translated(v, key, ans) ==
    IF v = "legacy"
    THEN IF ans = "ok" THEN "translated" ELSE "DeepL API Error"
    ELSE IF ~key THEN "Uebersetzung nicht verfuegbar."
    ELSE IF ans = "ok" THEN "translated" ELSE "Uebersetzung fehlgeschlagen."

\* translate_text_with_deepl: the error a call raises instead of returning
\* (status 0: it returns).  The backend client turns a RequestError into 503
\* TRANSLATION_FAILED and lets an HTTPStatusError escape.
TranslationRaises(v, key, ans) ==
    IF v = "backend" /\ key /\ ans = "down"
    THEN [status |-> 503, code |-> "TRANSLATION_FAILED"]
    ELSE IF v = "backend" /\ key /\ ans = "error"
    THEN [status |-> 500, code |-> ""]
    ELSE [status |-> 0, code |-> ""]

\* TRUE iff the call reaches the DeepL service
TranslationIssued(v, key) == v = "legacy" \/ key

(***************************************************************************)
(* The reference store                                                     *)
(***************************************************************************)
\* filter on the wrong column: the defect of a lookup that never matches a slug
get_by_name_en(kind, dnd_api_id) == {r \in store[kind] : r.name_en = dnd_api_id}

\* DndApiObjectRepository.get_by_dnd_api_id: the rows .first() can return
get_by_dnd_api_id(kind, dnd_api_id) ==
    {r \in store[kind] : r.dnd_api_id = dnd_api_id}

\* no early return on a hit
AfterLookupNoReturn(existing_obj) == "fetch"

\* "if existing_obj: return existing_obj"
AfterLookup(existing_obj) == IF existing_obj # {} THEN "done" ELSE "fetch"

\* the slug taken from the wrong field of the payload
ModelDataFromName(api_data, name_de, description_de) ==
    [dnd_api_id |-> api_data.name, name_en |-> api_data.name,
     name_de |-> name_de, description_de |-> description_de]

\* model_data of get_or_create_api_object / Spell(...) of create_spell_from_api
ModelData(api_data, name_de, description_de) ==
    [dnd_api_id |-> api_data.index, name_en |-> api_data.name,
     name_de |-> name_de, description_de |-> description_de]

\* a table without the unique index
NoUniqueViolation(kind, dnd_api_id) == FALSE

\* dnd_api_id = Column(String, unique=True): the INSERT is refused
UniqueViolation(kind, dnd_api_id) ==
    \E r \in store[kind] : r.dnd_api_id = dnd_api_id

(***************************************************************************)
(* Character classes and the bodies of character requests                  *)
(***************************************************************************)
Bard == <<"B", "a", "r", "d">>
bard == <<"b", "a", "r", "d">>
Elf == <<"E", "l", "f">>

ValidClasses == {Bard}               \* the names GET .../api/classes lists
GameClasses == {Bard, bard, Elf}     \* the gameclass values requests carry
CreateLevels == {0, 1}               \* the level values create requests carry

\* CharacterCreate / CharacterUpdate: `fields` are the attributes the body sets
NoBody == [fields |-> {}, gameclass |-> <<>>, level |-> 0]
CharacterCreate(gameclass, level) ==
    [fields |-> {"gameclass", "level"}, gameclass |-> gameclass, level |-> level]
CharacterUpdate(fields, gameclass, level) ==
    [fields |-> fields,
     gameclass |-> IF "gameclass" \in fields THEN gameclass ELSE <<>>,
     level |-> IF "level" \in fields THEN level ELSE 0]

\* _DND_CLASSES_CACHE / the lru_cache of fetch_dnd_classes_from_api.  `fetched`
\* is a history field: a fetch has succeeded since the process started.
EmptyCache == [state |-> "empty", classes |-> {}, fetched |-> FALSE]

\* a query that forgot its filter: any row of the table
get_first(kind, obj_id) == store[kind]

\* db.query(Spell).filter(Spell.id == spell_id).first() / db.get(model, obj_id)
get(kind, obj_id) == {x \in store[kind] : x.id = obj_id}

\* a save that overwrites the row that holds the external id already
Upsert(kind, row) ==
    LET old == {x \in store[kind] : x.dnd_api_id = row.dnd_api_id} IN
    (store[kind] \ old)
        \cup {[row EXCEPT !.id = IF old = {} THEN row.id ELSE (CHOOSE x \in old : TRUE).id]}

\* db.add(db_obj); db.commit(): the INSERT adds the row, or is refused and
\* leaves the table as it is
Insert(kind, row) ==
    IF UniqueViolation(kind, row.dnd_api_id) THEN store[kind] ELSE store[kind] \cup {row}

(***************************************************************************)
(* Requests.  Each worker serves one request at a time; `pc` is the place  *)
(* the handler has reached, the other fields are its arguments and locals. *)
(* hit, nfetch, ntrans, tried, prior, live, retry, pre, passed, solo,       *)
(* remote and answer are history fields: they record what the request did  *)
(* and saw, and steer nothing.                                             *)
(***************************************************************************)
\* no request was sent
NoUrl == [endpoint |-> "", id |-> <<>>]

Idle ==
    [op |-> "idle", pc |-> "idle", user |-> 0, kind |-> "", name |-> <<>>,
     nid |-> <<>>, api |-> NoPayload, name_de |-> "", description_de |-> "",
     cid |-> 0, eid |-> 0, snap |-> {}, loaded |-> {}, level |-> 0, body |-> NoBody,
     status |-> 0, code |-> "", res |-> 0,
     remote |-> 0, answer |-> "", hit |-> FALSE, nfetch |-> 0, ntrans |-> 0, tried |-> FALSE,
     prior |-> 0, live |-> FALSE, retry |-> FALSE, pre |-> "", passed |-> FALSE, solo |-> FALSE,
     url |-> NoUrl, wrote |-> FALSE]

Finish(r, status, code) == [r EXCEPT !.pc = "done", !.status = status, !.code = code]

EntryIds(kind) == {r.id : r \in store[kind]}

Init ==
    /\ variant \in Variants
    /\ DEEPL_API_KEY \in BOOLEAN
    /\ cache = EmptyCache
    /\ variant = "legacy" => DEEPL_API_KEY     \* routes/spells.py:21 refuses to start
    /\ store = [k \in Kinds |-> {}]
    /\ nextId = [k \in Kinds |-> 1]
    /\ chars = {}
    /\ nextCharId = 1
    /\ links = [k \in Kinds |-> <<>>]
    /\ req = [w \in Workers |-> Idle]
    /\ resolved = [k \in Kinds |-> [x \in ExternalIds |-> 0]]
    /\ n1 = <<>> /\ n2 = <<>> /\ norm = <<>>

Harness == <<n1, n2, norm>>
Deployment == <<variant, DEEPL_API_KEY, cache>>
Characters == <<chars, nextCharId, links>>

(***************************************************************************)
(* resolve(kind, name): get_or_create_api_object / create_spell_from_api / *)
(* create_item_from_api                                                    *)
(***************************************************************************)
\* normalise the name and look the store up; a hit returns at once
ResolveLookup(w, kind, name) ==
    LET nid == Normalize(variant, name)
        existing_obj == get_by_dnd_api_id(kind, nid)
        pc == AfterLookup(existing_obj)
        r0 == [Idle EXCEPT !.op = "resolve", !.kind = kind, !.name = name,
                           !.nid = nid, !.hit = existing_obj # {},
                           !.prior = resolved[kind][nid],
                           !.live = resolved[kind][nid] \in EntryIds(kind),
                           !.retry = \E v \in Workers \ {w} :
                                        /\ req[v].op = "resolve" /\ req[v].pc = "done"
                                        /\ req[v].kind = kind /\ req[v].nid = nid
                                        /\ req[v].status = 503]
        misses == {v \in Workers : req[v].op = "resolve" /\ req[v].kind = kind
                                   /\ req[v].pc \in {"fetch", "translate", "save"}}
    IN
    /\ req[w].pc = "idle"
    /\ pc # "done" => nextId[kind] + Cardinality(misses) <= MaxId
    /\ IF pc = "done"
       THEN LET row == CHOOSE r \in existing_obj : TRUE IN
            /\ req' = [req EXCEPT ![w] = [Finish(r0, 201, "") EXCEPT !.res = row.id]]
            /\ resolved' = [resolved EXCEPT ![kind][nid] = row.id]
       ELSE /\ req' = [req EXCEPT ![w] = [r0 EXCEPT !.pc = pc]]
            /\ UNCHANGED resolved
    /\ UNCHANGED <<Deployment, store, nextId, Characters, Harness>>

\* the remote GET and what the handler makes of its answer
ResolveFetch(w) ==
    LET r == req[w]
        url == FetchUrl(variant, r.kind, r.nid)
    IN
    /\ r.op = "resolve" /\ r.pc = "fetch"
    /\ \E resp \in RemoteResponses(url) :
         LET out == FetchOutcome(variant, r.kind, resp)
             r1 == [r EXCEPT !.nfetch = 1, !.api = resp.body, !.remote = resp.status,
                             !.url = url]
         IN req' = [req EXCEPT ![w] =
                      IF out.status = 0 THEN [r1 EXCEPT !.pc = "translate"]
                      ELSE IF out.status = Blocked THEN [r1 EXCEPT !.pc = "blocked"]
                      ELSE Finish(r1, out.status, out.code)]
    /\ UNCHANGED <<Deployment, store, nextId, Characters, resolved, Harness>>

\* the two translate_text_with_deepl calls, name then description, made
\* back to back against a translator in one condition for the request
ResolveTranslate(w) ==
    LET r == req[w] IN
    /\ r.op = "resolve" /\ r.pc = "translate"
    /\ \E ans \in TranslatorAnswers :
         LET issued == TranslationIssued(variant, DEEPL_API_KEY)
             raised == TranslationRaises(variant, DEEPL_API_KEY, ans)
             r1 == [r EXCEPT !.ntrans = IF issued THEN 1 ELSE 0,
                             !.answer = IF issued THEN ans ELSE "none"]
         IN
         /\ ~issued => ans = "ok"
         /\ req' = [req EXCEPT ![w] =
               IF raised.status # 0 THEN Finish(r1, raised.status, raised.code)
               ELSE [r1 EXCEPT !.pc = "save",
                               !.name_de = Translated(variant, DEEPL_API_KEY, ans),
                               !.description_de = Translated(variant, DEEPL_API_KEY, ans)]]
    /\ UNCHANGED <<Deployment, store, nextId, Characters, resolved, Harness>>

\* repo.save / db.add, db.commit, db.refresh: the INSERT and its outcome.
\* Nothing catches the IntegrityError of a refused INSERT.
ResolveSave(w) ==
    LET r == req[w]
        data == ModelData(r.api, r.name_de, r.description_de)
        row == [id |-> nextId[r.kind], dnd_api_id |-> data.dnd_api_id,
                name_en |-> data.name_en, name_de |-> data.name_de,
                description_de |-> data.description_de]
    IN
    /\ r.op = "resolve" /\ r.pc = "save"
    /\ store' = [store EXCEPT ![r.kind] = Insert(r.kind, row)]
    /\ IF UniqueViolation(r.kind, data.dnd_api_id)
       THEN /\ req' = [req EXCEPT ![w] = [Finish(r, 500, "") EXCEPT !.tried = TRUE]]
            /\ UNCHANGED <<nextId, resolved>>
       ELSE /\ nextId' = [nextId EXCEPT ![r.kind] = @ + 1]
            /\ req' = [req EXCEPT ![w] =
                         [Finish(r, 201, "") EXCEPT !.tried = TRUE, !.res = row.id]]
            /\ resolved' = [resolved EXCEPT ![r.kind][r.nid] = row.id]
    /\ UNCHANGED <<Deployment, Characters, Harness>>

(***************************************************************************)
(* The characters and link tables                                          *)
(***************************************************************************)
\* A link table is a bag of rows: links[kind] maps each (character, entry)
\* pair that has rows to the number of its rows.
Copies(kind, cid, eid) ==
    IF <<cid, eid>> \in DOMAIN links[kind] THEN links[kind][<<cid, eid>>] ELSE 0

Linked(kind, cid, eid) == <<cid, eid>> \in DOMAIN links[kind]

LinkedEntries(kind, cid) == {p[2] : p \in {q \in DOMAIN links[kind] : q[1] = cid}}

\* both collections of a character: its (kind, entry) links
LinkedPairs(cid) == UNION {{<<k, e>> : e \in LinkedEntries(k, cid)} : k \in Kinds}

\* INSERT INTO character_spells / character_items
InsertLink(table, cid, eid) ==
    [p \in DOMAIN table \cup {<<cid, eid>>} |->
        IF p \in DOMAIN table
        THEN (IF p = <<cid, eid>> THEN table[p] + 1 ELSE table[p])
        ELSE 1]

\* DELETE FROM ... WHERE character_id = cid AND spell_id / item_id = eid
DeleteLink(table, cid, eid) ==
    [p \in DOMAIN table \ {<<cid, eid>>} |-> table[p]]

\* a lookup by id alone: the defect of a query that forgets the owner filter
get_by_id(character_id, user_id) == {c \in chars : c.id = character_id}

\* CharacterRepository.get_by_id_and_user: the rows .first() can return
get_by_id_and_user(character_id, user_id) ==
    {c \in chars : c.id = character_id /\ c.user_id = user_id}

\* a dependency that tells a foreign character from a missing one
get_character_or_forbidden(v, character_id, user_id) ==
    IF get_by_id_and_user(character_id, user_id) # {} THEN [status |-> 0, code |-> ""]
    ELSE IF character_id \in {c.id : c \in chars}
    THEN [status |-> 403, code |-> IF v # "legacy" THEN "FORBIDDEN" ELSE ""]
    ELSE [status |-> 404, code |-> IF v # "legacy" THEN "CHARACTER_NOT_FOUND" ELSE ""]

\* get_character_for_user: status 0 to go on with the character, else the
\* error the request ends with (one error for "missing" and "not yours")
get_character_for_user(v, character_id, user_id) ==
    IF get_by_id_and_user(character_id, user_id) # {} THEN [status |-> 0, code |-> ""]
    ELSE [status |-> 404, code |-> IF v # "legacy" THEN "CHARACTER_NOT_FOUND" ELSE ""]

\* a dependency that lets any entry id through
get_dependency_unchecked(v, kind, eid) == [status |-> 0, code |-> ""]

\* get_spell_dependency / get_item_dependency: status 0 to go on with the
\* entry, else the error the request ends with
get_spell_dependency(v, kind, eid) ==
    IF eid \in EntryIds(kind) THEN [status |-> 0, code |-> ""]
    ELSE [status |-> 404, code |-> IF v # "legacy" THEN NotFoundCode(kind) ELSE ""]

\* a link table without its primary key
NoPrimaryKeyViolation(kind, cid, eid) == FALSE

\* (character_id, spell_id) / (character_id, item_id) is the primary key
PrimaryKeyViolation(kind, cid, eid) == Linked(kind, cid, eid)

\* ForeignKey("characters.id"), ForeignKey("spells.id" / "items.id")
ForeignKeyViolation(kind, cid, eid) ==
    \/ cid \notin {c.id : c \in chars}
    \/ eid \notin EntryIds(kind)

\* an existence test that never finds the link
NeverLinked(v, kind, cid, eid, snap) == FALSE

\* the existence test of add: the helper generation looks in the collection
\* it loaded with the character, the legacy one queries the link table
AlreadyLinked(v, kind, cid, eid, snap) ==
    IF v # "legacy" THEN eid \in snap ELSE Linked(kind, cid, eid)

\* what an add or remove request finds when it starts
PreState(op, user, kind, cid, eid) ==
    IF cid \notin {c.id : c \in chars} THEN "absent"
    ELSE IF \A c \in chars : c.id = cid => c.user_id # user THEN "foreign"
    ELSE IF op \notin {"add", "remove"} THEN "owned"
    ELSE IF Linked(kind, cid, eid) THEN "linked"
    ELSE IF op = "add" /\ eid \notin EntryIds(kind) THEN "noentry"
    ELSE "unlinked"

SameTarget(r, kind, cid, eid) ==
    r.op \in {"add", "remove"} /\ r.kind = kind /\ r.cid = cid /\ r.eid = eid

InFlight(r) == r.pc \notin {"idle", "done"}

\* req with worker w now serving r, and every other request on the same
\* (character, entry) pair marked as overlapped
Begin(w, r) ==
    [v \in Workers |->
        IF v = w
        THEN [r EXCEPT !.solo = ~\E x \in Workers \ {w} :
                                   InFlight(req[x]) /\ SameTarget(req[x], r.kind, r.cid, r.eid)]
        ELSE IF SameTarget(req[v], r.kind, r.cid, r.eid)
                \/ (req[v].op = "delete_character" /\ req[v].cid = r.cid)
        THEN [req[v] EXCEPT !.solo = FALSE]
        ELSE req[v]]

\* Character(**obj_in.model_dump(), user_id=user_id) with the id the INSERT assigns
NewCharacter(obj_in, user_id) ==
    [id |-> nextCharId, user_id |-> user_id,
     gameclass |-> obj_in.gameclass, level |-> obj_in.level]

\* CharacterRepository.create_for_user
create_for_user(obj_in, user_id) ==
    /\ nextCharId <= MaxChars
    /\ chars' = chars \cup {NewCharacter(obj_in, user_id)}
    /\ nextCharId' = nextCharId + 1
    /\ UNCHANGED <<Deployment, store, nextId, links, req, resolved, Harness>>

(***************************************************************************)
(* add_spell_to_character / add_item_to_character                          *)
(***************************************************************************)
\* get_character_for_user: the character, with its links in the helper generation
AddLoadCharacter(w, user, kind, cid, eid) ==
    LET r0 == [Idle EXCEPT !.op = "add", !.user = user, !.kind = kind,
                           !.cid = cid, !.eid = eid,
                           !.pre = PreState("add", user, kind, cid, eid)]
        character == get_character_for_user(variant, cid, user)
    IN
    /\ req[w].pc = "idle"
    /\ req' = Begin(w,
         IF character.status # 0
         THEN Finish(r0, character.status, character.code)
         ELSE [r0 EXCEPT !.pc = "load_entry",
                         !.snap = IF variant # "legacy"
                                  THEN LinkedEntries(kind, cid) ELSE {}])
    /\ UNCHANGED <<Deployment, store, nextId, Characters, resolved, Harness>>

\* get_spell_dependency / get_item_dependency, and in the helper generation
\* the membership test on the loaded collection
AddLoadEntry(w) ==
    LET r == req[w]
        spell == get_spell_dependency(variant, r.kind, r.eid)
    IN
    /\ r.op = "add" /\ r.pc = "load_entry"
    /\ req' = [req EXCEPT ![w] =
         IF spell.status # 0 THEN Finish(r, spell.status, spell.code)
         ELSE IF variant = "legacy" THEN [r EXCEPT !.pc = "check"]
         ELSE IF AlreadyLinked(variant, r.kind, r.cid, r.eid, r.snap)
         THEN Finish(r, 409, AlreadyExistsCode(r.kind))
         ELSE [r EXCEPT !.pc = "insert", !.passed = TRUE]]
    /\ UNCHANGED <<Deployment, store, nextId, Characters, resolved, Harness>>

\* legacy generation: the existing_association query
AddCheck(w) ==
    LET r == req[w] IN
    /\ r.op = "add" /\ r.pc = "check"
    /\ req' = [req EXCEPT ![w] =
         IF AlreadyLinked(variant, r.kind, r.cid, r.eid, r.snap)
         THEN Finish(r, 409, "")
         ELSE [r EXCEPT !.pc = "insert", !.passed = TRUE]]
    /\ UNCHANGED <<Deployment, store, nextId, Characters, resolved, Harness>>

\* db.add(association), db.commit(): nothing catches a refused INSERT.  The
\* row is committed before the handler goes on to db.refresh.
AddInsert(w) ==
    LET r == req[w] IN
    /\ r.op = "add" /\ r.pc = "insert"
    /\ IF \/ PrimaryKeyViolation(r.kind, r.cid, r.eid)
          \/ ForeignKeyViolation(r.kind, r.cid, r.eid)
       THEN /\ req' = [req EXCEPT ![w] = Finish(r, 500, "")]
            /\ UNCHANGED links
       ELSE /\ links' = [links EXCEPT ![r.kind] = InsertLink(@, r.cid, r.eid)]
            /\ req' = [req EXCEPT ![w] = [r EXCEPT !.pc = "refresh", !.wrote = TRUE]]
    /\ UNCHANGED <<Deployment, store, nextId, chars, nextCharId, resolved, Harness>>

\* db.refresh(association) re-reads the committed row and raises when another
\* request has deleted it since; in the helper generation db.refresh(character)
\* follows and the response lists the character's links
AddRefresh(w) ==
    LET r == req[w] IN
    /\ r.op = "add" /\ r.pc = "refresh"
    /\ req' = [req EXCEPT ![w] =
                 IF ~Linked(r.kind, r.cid, r.eid) THEN Finish(r, 500, "")
                 ELSE [Finish(r, 201, "") EXCEPT
                         !.snap = IF variant # "legacy"
                                  THEN LinkedEntries(r.kind, r.cid) ELSE r.snap]]
    /\ UNCHANGED <<Deployment, store, nextId, Characters, resolved, Harness>>

(***************************************************************************)
(* remove_spell_from_character / remove_item_from_character                *)
(***************************************************************************)
RemoveLoadCharacter(w, user, kind, cid, eid) ==
    LET r0 == [Idle EXCEPT !.op = "remove", !.user = user, !.kind = kind,
                           !.cid = cid, !.eid = eid,
                           !.pre = PreState("remove", user, kind, cid, eid)]
        character == get_character_for_user(variant, cid, user)
    IN
    /\ req[w].pc = "idle"
    /\ req' = Begin(w,
         IF character.status # 0
         THEN Finish(r0, character.status, character.code)
         ELSE [r0 EXCEPT !.pc = "find"])
    /\ UNCHANGED <<Deployment, store, nextId, Characters, resolved, Harness>>

\* get_spell_association / get_item_association
RemoveFind(w) ==
    LET r == req[w] IN
    /\ r.op = "remove" /\ r.pc = "find"
    /\ req' = [req EXCEPT ![w] =
         IF ~Linked(r.kind, r.cid, r.eid)
         THEN Finish(r, 404, IF variant # "legacy" THEN NotFoundCode(r.kind) ELSE "")
         ELSE [r EXCEPT !.pc = "delete"]]
    /\ UNCHANGED <<Deployment, store, nextId, Characters, resolved, Harness>>

\* db.delete(association), db.commit().  When another request deleted the row
\* in the meantime the DELETE matches nothing: the ORM warns or raises.
RemoveDelete(w) ==
    LET r == req[w] IN
    /\ r.op = "remove" /\ r.pc = "delete"
    /\ IF Linked(r.kind, r.cid, r.eid)
       THEN /\ links' = [links EXCEPT ![r.kind] = DeleteLink(@, r.cid, r.eid)]
            /\ req' = [req EXCEPT ![w] = Finish(r, 204, "")]
       ELSE /\ \E st \in {204, 500} : req' = [req EXCEPT ![w] = Finish(r, st, "")]
            /\ UNCHANGED links
    /\ UNCHANGED <<Deployment, store, nextId, chars, nextCharId, resolved, Harness>>

(***************************************************************************)
(* The class list and validate_game_class                                  *)
(***************************************************************************)
\* what GET .../api/classes can answer: the list, a server error, a refused
\* connection, or silence
ClassResponses == {200, 500, Refused, Silent}

\* fetch_dnd_classes_from_api, answered `resp` when it does call the remote
\* API.  routes/characters.py keeps the list in _DND_CLASSES_CACHE and turns
\* every failure into 500.  utils/dnd_api_client.py wraps a plain function in
\* lru_cache: a returned list is kept, a raised error is not.  The backend
\* client wraps an `async def` in lru_cache: what the cache keeps is the
\* coroutine object of the first call, whatever its outcome, and awaiting it
\* a second time raises RuntimeError.
fetch_dnd_classes_from_api(v, c, resp) ==
    LET listed == [state |-> "list", classes |-> ValidClasses, fetched |-> TRUE]
        spent == [state |-> "coroutine", classes |-> {}, fetched |-> resp = 200]
        Out(st, code, cl, c1, n) ==
            [status |-> st, code |-> code, classes |-> cl, cache |-> c1, calls |-> n]
    IN
    IF v = "legacy" THEN
        IF c.state = "list" THEN Out(0, "", c.classes, c, 0)
        ELSE IF resp = 200 THEN Out(0, "", ValidClasses, listed, 1)
        ELSE IF resp = Silent THEN Out(Blocked, "", {}, c, 1)
        ELSE Out(500, "", {}, c, 1)
    ELSE IF v = "helper" THEN
        IF c.state = "list" THEN Out(0, "", c.classes, c, 0)
        ELSE IF resp = 200 THEN Out(0, "", ValidClasses, listed, 1)
        ELSE Out(503, "SERVICE_UNAVAILABLE", {}, c, 1)
    ELSE
        IF c.state = "coroutine" THEN Out(500, "", {}, c, 0)
        ELSE IF resp = 200 THEN Out(0, "", ValidClasses, spent, 1)
        ELSE IF resp = 500 THEN Out(500, "", {}, spent, 1)
        ELSE Out(503, "SERVICE_UNAVAILABLE", {}, spent, 1)

\* "gameclass.lower() not in [cls.lower() for cls in valid_classes]"
InvalidClassName(gameclass, valid_classes) ==
    lower(gameclass) \notin {lower(cls) : cls \in valid_classes}

\* POST /characters: the body is taken, the class validation comes first
CreateCharacter(w, user, char_create) ==
    LET r0 == [Idle EXCEPT !.op = "create", !.user = user, !.body = char_create,
                           !.pc = "validate"]
        creating == {v \in Workers : req[v].op = "create" /\ InFlight(req[v])}
    IN
    /\ req[w].pc = "idle"
    /\ nextCharId + Cardinality(creating) <= MaxChars
    /\ req' = [req EXCEPT ![w] = r0]
    /\ UNCHANGED <<Deployment, store, nextId, Characters, resolved, Harness>>

\* validate_game_class, and the inline check of routes/characters.py
ValidateGameClass(w) ==
    LET r == req[w] IN
    /\ r.op \in {"create", "update"} /\ r.pc = "validate"
    /\ \E resp \in ClassResponses :
         LET out == fetch_dnd_classes_from_api(variant, cache, resp)
             r1 == [r EXCEPT !.nfetch = out.calls, !.hit = cache.fetched,
                             !.remote = IF out.calls = 1 THEN resp ELSE 0]
         IN
         /\ cache' = out.cache
         /\ req' = [req EXCEPT ![w] =
              IF out.status = Blocked THEN [r1 EXCEPT !.pc = "blocked"]
              ELSE IF out.status # 0 THEN Finish(r1, out.status, out.code)
              ELSE IF InvalidClassName(r.body.gameclass, out.classes)
              THEN Finish(r1, 400, IF variant # "legacy" THEN "INVALID_CLASS_NAME" ELSE "")
              ELSE [r1 EXCEPT !.pc = "commit"]]
    /\ UNCHANGED <<variant, DEEPL_API_KEY, store, nextId, Characters, resolved, Harness>>

\* character_repo.create_for_user after the validation
CreateCommit(w) ==
    LET r == req[w]
        row == NewCharacter(r.body, r.user)
    IN
    /\ r.op = "create" /\ r.pc = "commit"
    /\ chars' = chars \cup {row}
    /\ nextCharId' = nextCharId + 1
    /\ req' = [req EXCEPT ![w] = [Finish(r, 201, "") EXCEPT !.cid = row.id]]
    /\ UNCHANGED <<Deployment, store, nextId, links, resolved, Harness>>

(***************************************************************************)
(* get_character, update_character, delete_character                       *)
(***************************************************************************)
UpdateLevels == {0, 2}    \* the level values update requests carry

\* obj_in.model_dump(): every field of the schema, the unset ones with None
model_dump(obj_in) == {"gameclass", "level"}

\* obj_in.model_dump(exclude_unset=True): the fields the body sets
model_dump_exclude_unset(obj_in) == obj_in.fields

\* for field, value in update_data.items(): setattr(db_obj, field, value)
setattr(db_obj, obj_in) ==
    [f \in DOMAIN db_obj |->
        IF f \in model_dump_exclude_unset(obj_in) THEN obj_in[f] ELSE db_obj[f]]

\* GET /characters/{id}: the character with its collections; `kind` is the
\* collection of the response that is recorded.  routes/characters.py:127
\* reads the undefined name char_orm, so the legacy handler raises NameError.
GetCharacter(w, user, kind, cid) ==
    LET r0 == [Idle EXCEPT !.op = "get", !.user = user, !.kind = kind, !.cid = cid,
                           !.pre = PreState("get", user, kind, cid, 0)]
        character == get_character_for_user(variant, cid, user)
        row == CHOOSE c \in get_by_id_and_user(cid, user) : TRUE
    IN
    /\ req[w].pc = "idle"
    /\ req' = [req EXCEPT ![w] =
         IF character.status # 0 THEN Finish(r0, character.status, character.code)
         ELSE IF variant = "legacy" THEN Finish(r0, 500, "")
         ELSE Finish([r0 EXCEPT !.snap = LinkedEntries(kind, cid),
                                !.level = row.level], 200, "")]
    /\ UNCHANGED <<Deployment, store, nextId, Characters, resolved, Harness>>

\* PUT /characters/{id}: the character is loaded; a body that sets gameclass
\* goes through the class validation first
UpdateLoadCharacter(w, user, cid, char_update) ==
    LET r0 == [Idle EXCEPT !.op = "update", !.user = user, !.cid = cid,
                           !.body = char_update,
                           !.pre = PreState("update", user, "", cid, 0),
                           !.solo = ~\E x \in Workers \ {w} :
                                        InFlight(req[x]) /\ req[x].cid = cid]
        character == get_character_for_user(variant, cid, user)
        others == [v \in Workers |->
                     IF req[v].op = "update" /\ req[v].cid = cid
                     THEN [req[v] EXCEPT !.solo = FALSE] ELSE req[v]]
    IN
    /\ req[w].pc = "idle"
    /\ req' = [others EXCEPT ![w] =
         IF character.status # 0 THEN Finish(r0, character.status, character.code)
         ELSE [r0 EXCEPT !.pc = IF "gameclass" \in model_dump_exclude_unset(char_update)
                                THEN "validate" ELSE "commit"]]
    /\ UNCHANGED <<Deployment, store, nextId, Characters, resolved, Harness>>

\* setattr, db.add, db.commit, db.refresh.  When the row was deleted in the
\* meantime the UPDATE matches nothing and the ORM raises.
UpdateCommit(w) ==
    LET r == req[w] IN
    /\ r.op = "update" /\ r.pc = "commit"
    /\ IF r.cid \notin {c.id : c \in chars}
       THEN /\ req' = [req EXCEPT ![w] = Finish(r, 500, "")]
            /\ UNCHANGED chars
       ELSE /\ chars' = {IF c.id = r.cid THEN setattr(c, r.body) ELSE c : c \in chars}
            /\ req' = [req EXCEPT ![w] = Finish(r, 200, "")]
    /\ UNCHANGED <<Deployment, store, nextId, nextCharId, links, resolved, Harness>>

\* DELETE /characters/{id}: the character is loaded, in the helper generation
\* with both collections
DeleteLoadCharacter(w, user, cid) ==
    LET r0 == [Idle EXCEPT !.op = "delete_character", !.user = user, !.cid = cid,
                           !.pre = PreState("delete_character", user, "", cid, 0),
                           !.solo = ~\E x \in Workers \ {w} :
                                        InFlight(req[x]) /\ req[x].cid = cid]
        character == get_character_for_user(variant, cid, user)
        others == [v \in Workers |->
                     IF req[v].op = "delete_character" /\ req[v].cid = cid
                     THEN [req[v] EXCEPT !.solo = FALSE] ELSE req[v]]
    IN
    /\ req[w].pc = "idle"
    /\ req' = [others EXCEPT ![w] =
         IF character.status # 0 THEN Finish(r0, character.status, character.code)
         ELSE [r0 EXCEPT !.pc = "commit",
                         !.loaded = IF variant # "legacy" THEN LinkedPairs(cid) ELSE {}]]
    /\ UNCHANGED <<Deployment, store, nextId, Characters, resolved, Harness>>

\* the rows db.delete(character), db.commit() removes: the character and all
\* its link rows
WithoutCharacter(cid) ==
    /\ chars' = {c \in chars : c.id # cid}
    /\ links' = [k \in Kinds |->
                   [p \in {q \in DOMAIN links[k] : q[1] # cid} |-> links[k][p]]]

\* db.delete(character), db.commit().  models/db_models.py cascades the delete
\* to the link rows that were loaded with the character; a link row added
\* since keeps the character row referenced and the DELETE is refused.
\* models.py (legacy) has no cascade: with any link row the ORM fails to
\* blank the row's key and nothing is deleted.  When a row to delete is gone
\* already, the DELETE matches nothing: the ORM warns or raises.
DeleteCommit(w) ==
    LET r == req[w]
        now == LinkedPairs(r.cid)
        refused == IF variant = "legacy" THEN now # {} ELSE now \ r.loaded # {}
        gone == r.cid \notin {c.id : c \in chars} \/ r.loaded \ now # {}
        others == [v \in Workers |->
                     IF req[v].cid = r.cid THEN [req[v] EXCEPT !.solo = FALSE]
                     ELSE req[v]]
    IN
    /\ r.op = "delete_character" /\ r.pc = "commit"
    /\ \/ /\ refused
          /\ req' = [req EXCEPT ![w] = Finish(r, 500, "")]
          /\ UNCHANGED <<chars, links>>
       \/ /\ ~refused
          /\ WithoutCharacter(r.cid)
          /\ req' = [others EXCEPT ![w] = Finish(r, 204, "")]
       \/ /\ ~refused /\ gone
          /\ req' = [req EXCEPT ![w] = Finish(r, 500, "")]
          /\ UNCHANGED <<chars, links>>
    /\ UNCHANGED <<Deployment, store, nextId, nextCharId, resolved, Harness>>

(***************************************************************************)
(* delete_spell / delete_item                                              *)
(***************************************************************************)
\* an entry whose link rows the delete does not look at
no_character_spells(kind, id) == {}

\* Spell.character_spells / Item.character_items: the link rows of an entry,
\* which the session loads when the entry is deleted
character_spells(kind, id) == {p \in DOMAIN links[kind] : p[2] = id}

\* The row is looked up by id and deleted.  While a link row refers to it the
\* delete fails (the ORM cannot blank the link's key column) and nothing changes.
DeleteEntry(w, kind, id) ==
    LET r0 == [Idle EXCEPT !.op = "delete_entry", !.kind = kind, !.eid = id]
        referenced == character_spells(kind, id) # {}
        others == [v \in Workers |->
                     IF req[v].op \in {"add", "remove"} /\ req[v].kind = kind
                        /\ req[v].eid = id
                     THEN [req[v] EXCEPT !.solo = FALSE] ELSE req[v]]
    IN
    /\ req[w].pc = "idle"
    /\ IF get(kind, id) = {}
       THEN /\ req' = [req EXCEPT ![w] = Finish(r0, 404, "")]
            /\ UNCHANGED store
       ELSE IF referenced
       THEN /\ req' = [req EXCEPT ![w] = Finish(r0, 500, "")]
            /\ UNCHANGED store
       ELSE /\ store' = [store EXCEPT ![kind] = {x \in @ : x.id # id}]
            /\ req' = [others EXCEPT ![w] = Finish(r0, 204, "")]
    /\ UNCHANGED <<Deployment, nextId, Characters, resolved, Harness>>

\* GET /spells/{id}, GET /items/{id}: the row with that id as it is stored
GetEntry(w, kind, id) ==
    LET r0 == [Idle EXCEPT !.op = "get_entry", !.kind = kind, !.eid = id]
        found == get(kind, id)
        row == CHOOSE x \in found : TRUE
    IN
    /\ req[w].pc = "idle"
    /\ req' = [req EXCEPT ![w] =
         IF found = {} THEN Finish(r0, 404, "")
         ELSE Finish([r0 EXCEPT !.res = row.id, !.nid = row.dnd_api_id,
                                !.name = row.name_en, !.name_de = row.name_de,
                                !.description_de = row.description_de], 200, "")]
    /\ UNCHANGED <<Deployment, store, nextId, Characters, resolved, Harness>>

\* the response is sent; the worker takes the next request
Respond(w) ==
    /\ req[w].pc = "done"
    /\ req' = [req EXCEPT ![w] = Idle]
    /\ UNCHANGED <<Deployment, store, nextId, Characters, resolved, Harness>>

\* the resolver deployment: the reference store and its clients
Next ==
    \/ \E w \in Workers, k \in Kinds, n \in RequestNames : ResolveLookup(w, k, n)
    \/ \E w \in Workers : ResolveFetch(w)
    \/ \E w \in Workers : ResolveTranslate(w)
    \/ \E w \in Workers : ResolveSave(w)
    \/ \E w \in Workers, k \in Kinds : \E id \in 1..nextId[k] : DeleteEntry(w, k, id)
    \/ \E w \in Workers, k \in Kinds : \E id \in 1..nextId[k] : GetEntry(w, k, id)
    \/ \E w \in Workers : Respond(w)

Spec == Init /\ [][Next]_vars

\* a handler that has started runs on: each worker is a thread of its own
Step(w) == ResolveFetch(w) \/ ResolveTranslate(w) \/ ResolveSave(w)

SpecLive == Spec /\ \A w \in Workers : WF_vars(Step(w))

(***************************************************************************)
(* The association manager, started from a store that already caches one   *)
(* spell and one item (each the result of one resolve)                     *)
(***************************************************************************)
CachedRow ==
    [id |-> 1, dnd_api_id |-> IdFB, name_en |-> NameFB,
     name_de |-> "translated", description_de |-> "translated"]

InitAssoc ==
    /\ variant \in {"helper", "legacy"}    \* "backend" runs the helper's handlers
    /\ DEEPL_API_KEY = TRUE
    /\ cache = EmptyCache
    /\ store = [k \in Kinds |-> {CachedRow}]
    /\ nextId = [k \in Kinds |-> 2]
    /\ chars = {}
    /\ nextCharId = 1
    /\ links = [k \in Kinds |-> <<>>]
    /\ req = [w \in Workers |-> Idle]
    /\ resolved = [k \in Kinds |-> [x \in ExternalIds |-> IF x = IdFB THEN 1 ELSE 0]]
    /\ n1 = <<>> /\ n2 = <<>> /\ norm = <<>>

\* the ids the store has handed out so far, deleted ones included
IssuedIds(kind) == 1..(nextId[kind] - 1)

NextAssoc ==
    \/ \E u \in Users : create_for_user(CharacterCreate(Bard, 1), u)
    \/ \E w \in Workers, u \in Users, k \in Kinds, c \in 1..MaxChars : \E e \in IssuedIds(k) :
         AddLoadCharacter(w, u, k, c, e)
    \/ \E w \in Workers : AddLoadEntry(w)
    \/ \E w \in Workers : AddCheck(w)
    \/ \E w \in Workers : AddInsert(w)
    \/ \E w \in Workers : AddRefresh(w)
    \/ \E w \in Workers, u \in Users, k \in Kinds, c \in 1..MaxChars : \E e \in IssuedIds(k) :
         RemoveLoadCharacter(w, u, k, c, e)
    \/ \E w \in Workers : RemoveFind(w)
    \/ \E w \in Workers : RemoveDelete(w)
    \/ \E w \in Workers, k \in Kinds : \E id \in IssuedIds(k) : DeleteEntry(w, k, id)
    \/ \E w \in Workers : Respond(w)

SpecAssoc == InitAssoc /\ [][NextAssoc]_vars

(***************************************************************************)
(* The character handlers together with the spell association handlers,    *)
(* over the same pre-populated store                                       *)
(***************************************************************************)
\* the association kind exercised next to the character handlers; the item
\* handlers are the same code over the item tables
CharKinds == {"spell"}

NextChar ==
    \/ \E u \in Users : create_for_user(CharacterCreate(Bard, 1), u)
    \/ \E w \in Workers, u \in Users, k \in CharKinds, c \in 1..MaxChars :
         GetCharacter(w, u, k, c)
    \/ \E w \in Workers, u \in Users, c \in 1..MaxChars, l \in UpdateLevels :
         UpdateLoadCharacter(w, u, c, CharacterUpdate({"level"}, Bard, l))
    \/ \E w \in Workers : UpdateCommit(w)
    \/ \E w \in Workers, u \in Users, c \in 1..MaxChars : DeleteLoadCharacter(w, u, c)
    \/ \E w \in Workers : DeleteCommit(w)
    \/ \E w \in Workers, u \in Users, k \in CharKinds, c \in 1..MaxChars : \E e \in IssuedIds(k) :
         AddLoadCharacter(w, u, k, c, e)
    \/ \E w \in Workers : AddLoadEntry(w)
    \/ \E w \in Workers : AddCheck(w)
    \/ \E w \in Workers : AddInsert(w)
    \/ \E w \in Workers : AddRefresh(w)
    \/ \E w \in Workers, u \in Users, k \in CharKinds, c \in 1..MaxChars : \E e \in IssuedIds(k) :
         RemoveLoadCharacter(w, u, k, c, e)
    \/ \E w \in Workers : RemoveFind(w)
    \/ \E w \in Workers : RemoveDelete(w)
    \/ \E w \in Workers : Respond(w)

SpecChar == InitAssoc /\ [][NextChar]_vars

(***************************************************************************)
(* Creating and updating characters with the class validation.  The        *)
(* process starts with an empty class cache over a database that is empty  *)
(* or holds one character with one spell.                                  *)
(***************************************************************************)
Existing == [id |-> 1, user_id |-> 1, gameclass |-> Bard, level |-> 1]

UpdateBodies ==
    {CharacterUpdate(f, g, l) : f \in SUBSET {"gameclass", "level"},
                                g \in GameClasses, l \in UpdateLevels}

InitClass ==
    /\ variant \in {"legacy", "backend"}
    /\ DEEPL_API_KEY = TRUE
    /\ cache = EmptyCache
    /\ store = [k \in Kinds |-> {CachedRow}]
    /\ nextId = [k \in Kinds |-> 2]
    /\ \/ chars = {} /\ nextCharId = 1 /\ links = [k \in Kinds |-> <<>>]
       \/ /\ chars = {Existing} /\ nextCharId = 2
          /\ links = [k \in Kinds |-> IF k = "spell" THEN <<1, 1>> :> 1 ELSE <<>>]
    /\ req = [w \in Workers |-> Idle]
    /\ resolved = [k \in Kinds |-> [x \in ExternalIds |-> IF x = IdFB THEN 1 ELSE 0]]
    /\ n1 = <<>> /\ n2 = <<>> /\ norm = <<>>

\* the requests of one user; ownership is exercised by the character handlers
ClassUsers == {1}

NextClass ==
    \/ \E w \in Workers, u \in ClassUsers, g \in GameClasses, l \in CreateLevels :
         CreateCharacter(w, u, CharacterCreate(g, l))
    \/ \E w \in Workers, u \in ClassUsers, c \in 1..MaxChars, b \in UpdateBodies :
         UpdateLoadCharacter(w, u, c, b)
    \/ \E w \in Workers : ValidateGameClass(w)
    \/ \E w \in Workers : CreateCommit(w)
    \/ \E w \in Workers : UpdateCommit(w)
    \/ \E w \in Workers : Respond(w)

SpecClass == InitClass /\ [][NextClass]_vars

(***************************************************************************)
(* The normalisers as pure functions: two names in, the ids out            *)
(***************************************************************************)
Alphabet == {"F", "f", " ", "-", "'"}
BoundedNames == UNION {[1..k -> Alphabet] : k \in 0..MaxLen}
FireBolt == <<"F","i","r","e"," ","B","o","l","t">>
fire_bolt == <<"f","i","r","e","-","b","o","l","t">>
FIRE_BOLT == <<"F","I","R","E"," "," "," ","B","O","L","T">>
LiteralNames == {FireBolt, fire_bolt, FIRE_BOLT}

InitNorm ==
    /\ variant \in Variants
    /\ DEEPL_API_KEY = TRUE
    /\ cache = EmptyCache
    /\ store = [k \in Kinds |-> {}]
    /\ nextId = [k \in Kinds |-> 1]
    /\ chars = {}
    /\ nextCharId = 1
    /\ links = [k \in Kinds |-> <<>>]
    /\ req = [w \in Workers |-> Idle]
    /\ resolved = [k \in Kinds |-> [x \in ExternalIds |-> 0]]
    /\ n1 \in BoundedNames \cup LiteralNames
    /\ n2 \in BoundedNames \cup LiteralNames
    /\ norm = <<>>

\* the deployed generation normalises both names
ApplyNormalize ==
    /\ norm = <<>>
    /\ norm' = <<Normalize(variant, n1), Normalize(variant, n2)>>
    /\ UNCHANGED <<Deployment, store, nextId, Characters, req, resolved, n1, n2>>

NextNorm == ApplyNormalize

SpecNorm == InitNorm /\ [][NextNorm]_vars

(***************************************************************************)
(* Properties of the resolver                                              *)
(***************************************************************************)
Resolving(w) == req[w].op = "resolve"

\* C1 as stated: a resolve of a name whose external id was resolved
\* successfully before issues no remote fetch and no translation and returns
\* the local id returned before.
C1_IdempotentResolution ==
    \A w \in Workers :
        (Resolving(w) /\ req[w].prior # 0) =>
            /\ req[w].nfetch = 0
            /\ req[w].ntrans = 0
            /\ req[w].pc = "done" => (req[w].status = 201 /\ req[w].res = req[w].prior)

\* C1 amended: a resolve of a name whose external id was resolved successfully
\* before, and whose entry has not been deleted since, issues no remote fetch
\* and no translation and returns the local id returned before.
C1_IdempotentWhileCached ==
    \A w \in Workers :
        (Resolving(w) /\ req[w].prior # 0 /\ req[w].live) =>
            /\ req[w].nfetch = 0
            /\ req[w].ntrans = 0
            /\ req[w].pc = "done"
            /\ req[w].status = 201
            /\ req[w].res = req[w].prior

\* a miss persisted the entry under one spelling, and a later resolve of
\* another spelling of the same external id returned the same local id
C1_Witness ==
    \E w, v \in Workers :
        /\ Resolving(v) /\ req[v].pc = "done" /\ req[v].tried /\ req[v].status = 201
        /\ Resolving(w) /\ req[w].pc = "done" /\ req[w].live
        /\ req[w].kind = req[v].kind /\ req[w].nid = req[v].nid
        /\ req[w].name # req[v].name
        /\ req[w].prior = req[v].res /\ req[w].res = req[v].res

\* C2: on a store hit resolve returns the stored entry at once: no remote
\* fetch, no translation, no insert, and the step leaves the store unchanged.
C2_HitFrame ==
    /\ [](\A w \in Workers :
            (Resolving(w) /\ req[w].hit) =>
                /\ req[w].pc = "done" /\ req[w].status = 201
                /\ req[w].nfetch = 0 /\ req[w].ntrans = 0 /\ ~req[w].tried
                /\ req[w].res # 0)
    /\ [][\A w \in Workers :
            (req[w].pc = "idle" /\ req'[w].op = "resolve" /\ req'[w].hit) =>
                (store' = store /\ nextId' = nextId)]_vars

\* a resolve answered from a store that holds the entry
C2_Witness ==
    \E w \in Workers :
        /\ Resolving(w) /\ req[w].hit /\ req[w].pc = "done"
        /\ \E row \in store[req[w].kind] :
             row.id = req[w].res /\ row.dnd_api_id = req[w].nid

\* two resolves of the same never-resolved name that both missed and both
\* reached the insert: they ran concurrently
Raced(w, v) ==
    /\ w # v /\ Resolving(w) /\ Resolving(v)
    /\ req[w].kind = req[v].kind /\ req[w].nid = req[v].nid
    /\ req[w].prior = 0 /\ req[v].prior = 0
    /\ req[w].pc = "done" /\ req[v].pc = "done"
    /\ req[w].tried /\ req[v].tried

\* C3: two concurrent resolves of the same uncached name both succeed and
\* return the same local id; the loser of the insert does not fail its caller.
C3_RaceConvergence ==
    \A w, v \in Workers :
        Raced(w, v) =>
            /\ req[w].status = 201 /\ req[v].status = 201
            /\ req[w].res = req[v].res

\* C4: the reference store never holds two rows with the same external id
\* in one kind.
C4_UniqueExternalId ==
    \A k \in Kinds : \A r1, r2 \in store[k] :
        r1.dnd_api_id = r2.dnd_api_id => r1 = r2

\* a second INSERT of an external id was attempted and refused
C4_Witness ==
    \E w \in Workers :
        /\ Resolving(w) /\ req[w].pc = "done" /\ req[w].tried /\ req[w].status = 500
        /\ \E row \in store[req[w].kind] : row.dnd_api_id = req[w].api.index

\* C5: the remote fetch and the translation of an entry are each performed at
\* most once per (kind, normalized name): no two invocations both fetched the
\* entry, and no two both called the translator for it.
C5_FetchAndTranslateOnce ==
    \A w, v \in Workers :
        (w # v /\ Resolving(w) /\ Resolving(v)
              /\ req[w].kind = req[v].kind /\ req[w].nid = req[v].nid) =>
            /\ ~(req[w].api # NoPayload /\ req[v].api # NoPayload)
            /\ req[w].ntrans + req[v].ntrans <= 1

\* C7: an entry persisted on a miss has external id normalize(name), so the
\* key recomputed from the same name finds it.
C7_PersistedIdIsNormalizedName ==
    \A w \in Workers :
        (Resolving(w) /\ req[w].pc = "done" /\ req[w].tried /\ req[w].status = 201) =>
            \A row \in store[req[w].kind] :
                row.id = req[w].res =>
                    /\ row.dnd_api_id = Normalize(variant, req[w].name)
                    /\ row \in get_by_dnd_api_id(req[w].kind,
                                                 Normalize(variant, req[w].name))

\* a miss has just persisted its entry
C7_Witness ==
    \E w \in Workers :
        /\ Resolving(w) /\ req[w].pc = "done" /\ req[w].tried /\ req[w].status = 201
        /\ ~req[w].hit /\ req[w].nfetch = 1
        /\ \E row \in store[req[w].kind] : row.id = req[w].res

\* a resolve that fetched and got this status from the remote API
Fetched(w) == Resolving(w) /\ req[w].nfetch = 1

\* C15: when the remote API answers 404 on a miss, resolve fails with
\* ReferenceNotFound for the kind and calls no translation.
C15_RemoteNotFound ==
    \A w \in Workers :
        (Fetched(w) /\ req[w].remote = 404) =>
            /\ req[w].pc = "done" /\ req[w].status = 404
            /\ variant # "legacy" => req[w].code = NotFoundCode(req[w].kind)
            /\ req[w].ntrans = 0 /\ ~req[w].tried

\* the remote API answered 404 for a name it does not hold
C15_Witness ==
    \E w \in Workers :
        /\ Fetched(w) /\ req[w].remote = 404 /\ req[w].pc = "done"
        /\ \A d \in Catalogue[Endpoint(req[w].kind)] : d.index # req[w].nid

\* C16: every remote failure other than 404 (refused connection, timeout,
\* error status) makes resolve fail with 503 SERVICE_UNAVAILABLE.
C16_RemoteUnavailable ==
    \A w \in Workers :
        (Fetched(w) /\ req[w].remote \notin {200, 404} /\ req[w].pc = "done") =>
            /\ req[w].status = 503
            /\ variant # "legacy" => req[w].code = "SERVICE_UNAVAILABLE"

\* the text the claim expects in place of a translation
SourceMarkedPending == "source text, translation pending"

\* C17: when the translator is unavailable (no credential, or the call
\* fails) the miss still persists the entry and returns it, with the German
\* name and description set to the source text marked translation-pending.
C17_TranslatorUnavailable ==
    \A w \in Workers :
        (Resolving(w) /\ req[w].answer \in {"none", "down", "error"}) =>
            /\ req[w].pc = "done" => req[w].tried
            /\ (req[w].pc = "done" /\ req[w].status = 201) =>
                   \A row \in store[req[w].kind] :
                       row.id = req[w].res =>
                           /\ row.name_de = SourceMarkedPending
                           /\ row.description_de = SourceMarkedPending

\* the remote API holds the name and answered the fetch
RemoteAnswered(r) ==
    /\ r.nfetch = 1 /\ r.remote \in {200, 404}
    /\ \E d \in Catalogue[Endpoint(r.kind)] : d.index = r.nid

\* C18: a resolve that ends with UpstreamUnavailable inserted nothing and
\* leaves the store as it was; a later resolve of the same name that the
\* remote API answers succeeds and leaves exactly one row for the name.
C18_RetrySafety ==
    [][\A w \in Workers :
         (req[w].pc # "done" /\ req'[w].op = "resolve" /\ req'[w].pc = "done") =>
            /\ req'[w].status = 503 => (store' = store /\ ~req'[w].tried)
            /\ (req'[w].retry /\ RemoteAnswered(req'[w])) =>
                   /\ req'[w].status = 201
                   /\ Cardinality(
                        {x \in store'[req'[w].kind] : x.dnd_api_id = req'[w].nid}) = 1
      ]_vars

\* C19: a completed resolve ends as Resolved (after a hit, or after fetch,
\* translate and persist), as NotFound (after a remote 404) or as Unavailable
\* (after a remote error); nothing else reaches the caller, and a finished
\* invocation does nothing more.
C19_TerminalStates ==
    /\ [](\A w \in Workers :
            (Resolving(w) /\ req[w].pc = "done") =>
                /\ req[w].status \in {201, 404, 503}
                /\ req[w].status = 201 =>
                       \/ req[w].hit
                       \/ (req[w].remote = 200 /\ req[w].nfetch = 1 /\ req[w].tried)
                /\ req[w].status = 404 => (req[w].nfetch = 1 /\ req[w].remote = 404)
                /\ req[w].status = 503 =>
                       (req[w].nfetch = 1 /\ req[w].remote \notin {200, 404}))
    /\ [][\A w \in Workers :
            (Resolving(w) /\ req[w].pc = "done") =>
                (req'[w] = req[w] \/ req'[w] = Idle)]_vars

\* C20: every resolve invocation terminates, also when the remote API or the
\* translator never answers.
C20_Termination ==
    \A w \in Workers : Resolving(w) ~> (req[w].pc = "done")

(***************************************************************************)
(* Properties of the normalisers                                           *)
(***************************************************************************)
\* the maximal alphanumeric runs of s, in order; cur is the run being read
RECURSIVE Runs(_, _)
Runs(s, cur) ==
    LET closed == IF cur = <<>> THEN <<>> ELSE <<cur>> IN
    IF s = <<>> THEN closed
    ELSE IF IsAlnum(Head(s)) THEN Runs(Tail(s), Append(cur, Head(s)))
    ELSE closed \o Runs(Tail(s), <<>>)

\* two names differ only in case and separator runs iff they have the same words
Words(name) == Runs(lower(name), <<>>)

\* C6: names that differ only in case and in their runs of separators
\* normalize to the same external id; in particular "Fire Bolt", "fire-bolt"
\* and "FIRE   BOLT" do.
C6_NormalizationDeterminism ==
    norm # <<>> =>
        /\ Words(n1) = Words(n2) => norm[1] = norm[2]
        /\ (n1 \in LiteralNames /\ n2 \in LiteralNames) => norm[1] = norm[2]

(***************************************************************************)
(* Properties of the association manager                                   *)
(***************************************************************************)
\* a finished add or remove that no other request on its pair overlapped or
\* followed: what it found when it started is what the previous call left
Alone(w) == req[w].pc = "done" /\ req[w].solo

\* C8: on an owned character and an existing entry, add on an unlinked pair
\* succeeds and links it, add on the pair it linked is refused with 409
\* (AssociationAlreadyExists) and leaves the link; remove on a linked pair
\* succeeds and unlinks it, remove on the pair it unlinked is refused with 404
\* (AssociationNotFound).
C8_AddTwiceRemoveTwice ==
    \A w \in Workers :
        LET r == req[w] IN
        Alone(w) =>
            /\ (r.op = "add" /\ r.pre = "unlinked") =>
                   (r.status = 201 /\ Copies(r.kind, r.cid, r.eid) = 1)
            /\ (r.op = "add" /\ r.pre = "linked") =>
                   /\ r.status = 409
                   /\ variant # "legacy" => r.code = AlreadyExistsCode(r.kind)
                   /\ Copies(r.kind, r.cid, r.eid) = 1
            /\ (r.op = "remove" /\ r.pre = "linked") =>
                   (r.status = 204 /\ ~Linked(r.kind, r.cid, r.eid))
            /\ (r.op = "remove" /\ r.pre = "unlinked") =>
                   /\ r.status = 404
                   /\ variant # "legacy" => r.code = NotFoundCode(r.kind)
                   /\ ~Linked(r.kind, r.cid, r.eid)

\* the second add of a pair was refused while, for the other kind, the second
\* remove of a pair was refused
C8_Witness ==
    \E w, v \in Workers :
        /\ Alone(w) /\ req[w].op = "add" /\ req[w].pre = "linked" /\ req[w].status = 409
        /\ Alone(v) /\ req[v].op = "remove" /\ req[v].pre = "unlinked"
        /\ req[v].status = 404 /\ req[v].eid \in EntryIds(req[v].kind)

\* C9: a (character, entry) pair has at most one row in the spell-link table
\* and at most one in the item-link table.
C9_PairLinkedOnce ==
    \A k \in Kinds : \A p \in DOMAIN links[k] : links[k][p] = 1

\* an add that passed the existence test had its INSERT refused by the key
C9_Witness ==
    \E w \in Workers :
        /\ req[w].op = "add" /\ req[w].pc = "done" /\ req[w].passed
        /\ req[w].status = 500
        /\ Copies(req[w].kind, req[w].cid, req[w].eid) = 1

\* two adds of the same pair that overlapped and both passed the existence test
BothPassed(w, v) ==
    /\ w # v /\ req[w].op = "add" /\ req[v].op = "add"
    /\ req[w].kind = req[v].kind /\ req[w].cid = req[v].cid /\ req[w].eid = req[v].eid
    /\ ~req[w].solo /\ ~req[v].solo
    /\ req[w].passed /\ req[v].passed
    /\ req[w].pc = "done" /\ req[v].pc = "done"

\* C10: of two concurrent adds of one pair that both passed the existence
\* test, one creates the link and the other is answered 409
\* AssociationAlreadyExists, never another error.
C10_LoserGetsAlreadyExists ==
    \A w, v \in Workers :
        BothPassed(w, v) =>
            /\ {req[w].status, req[v].status} = {201, 409}
            /\ \A x \in {w, v} :
                 (req[x].status = 409 /\ variant # "legacy") =>
                     req[x].code = AlreadyExistsCode(req[x].kind)

(***************************************************************************)
(* Properties of the character handlers                                    *)
(***************************************************************************)
NotFoundAnswer(w) ==
    /\ req[w].pc = "done" /\ req[w].status = 404
    /\ variant # "legacy" => req[w].code = "CHARACTER_NOT_FOUND"

Answer(w) == <<req[w].status, req[w].code, req[w].snap, req[w].res>>

C13_NoStaleList ==
    /\ [](\A w \in Workers :
            /\ (req[w].op = "get" /\ req[w].pre = "owned" /\ req[w].pc = "done") =>
                   req[w].status = 200
            /\ (req[w].op = "add" /\ Alone(w) /\ req[w].status = 201) =>
                   /\ req[w].snap = LinkedEntries(req[w].kind, req[w].cid)
                   /\ req[w].eid \in req[w].snap)
    /\ [][\A w \in Workers :
            (req[w].pc = "idle" /\ req'[w].op = "get" /\ req'[w].status = 200) =>
                req'[w].snap = LinkedEntries(req'[w].kind, req'[w].cid)]_vars

\* C14: add on an owned character with an entry id the store does not hold
\* fails with ReferenceNotFound and creates no link row.
C14_ReferenceNotFound ==
    \A w \in Workers :
        (req[w].op = "add" /\ req[w].pre = "noentry" /\ req[w].pc = "done") =>
            /\ req[w].status = 404
            /\ variant # "legacy" => req[w].code = NotFoundCode(req[w].kind)
            /\ ~Linked(req[w].kind, req[w].cid, req[w].eid)

\* an owner asked for an entry that had been deleted
C14_Witness ==
    \E w \in Workers :
        /\ req[w].op = "add" /\ req[w].pre = "noentry" /\ req[w].pc = "done"
        /\ get_by_id_and_user(req[w].cid, req[w].user) # {}
        /\ req[w].eid \notin EntryIds(req[w].kind)

\* C21: deleting a character deletes all of its spell and item link rows: a
\* delete by the owner that no other request on the character overlaps
\* succeeds, a successful delete leaves neither the character nor a link row
\* of it, and no link row ever refers to a character that does not exist.
C21_DeleteCascades ==
    /\ [](\A k \in Kinds : \A p \in DOMAIN links[k] : p[1] \in {c.id : c \in chars})
    /\ [](\A w \in Workers :
            (req[w].op = "delete_character" /\ req[w].pc = "done"
             /\ req[w].pre = "owned" /\ req[w].solo) => req[w].status = 204)
    /\ [][\A w \in Workers :
            (req[w].pc = "commit" /\ req'[w].op = "delete_character"
             /\ req'[w].pc = "done" /\ req'[w].status = 204) =>
                /\ req[w].cid \notin {c.id : c \in chars'}
                /\ \A k \in Kinds : \A p \in DOMAIN links'[k] : p[1] # req[w].cid]_vars

\* what a get of an entry returned
Read(w) ==
    [id |-> req[w].res, dnd_api_id |-> req[w].nid, name_en |-> req[w].name,
     name_de |-> req[w].name_de, description_de |-> req[w].description_de]

GotEntry(w) == req[w].op = "get_entry" /\ req[w].pc = "done" /\ req[w].status = 200

\* C22: reference entries are immutable once cached: no step changes a field
\* of a persisted entry, a get returns the entry as it is stored, and all gets
\* of one entry return the same field values.
C22_EntriesImmutable ==
    /\ [][\A k \in Kinds : \A x \in store[k] : \A y \in store'[k] :
            x.id = y.id => x = y]_vars
    /\ [](\A w \in Workers :
            GotEntry(w) =>
                \A x \in store[req[w].kind] : x.id = req[w].eid => Read(w) = x)
    /\ [](\A w, v \in Workers :
            (GotEntry(w) /\ GotEntry(v) /\ req[w].kind = req[v].kind
             /\ req[w].eid = req[v].eid) => Read(w) = Read(v))

\* an entry is read after a second save of its external id was attempted
C22_Witness ==
    \E w, v \in Workers :
        /\ GotEntry(w)
        /\ Resolving(v) /\ req[v].pc = "done" /\ req[v].tried /\ req[v].status = 500
        /\ req[v].kind = req[w].kind /\ req[v].api.index = req[w].nid

\* C25: a get of an id that has no row answers 404; a delete of an id that
\* has no row answers 404 and leaves the store unchanged; a successful delete
\* removes the row, and the id of a deleted entry is never handed out again.
C25_DeletedIsNotFound ==
    [][/\ \A w \in Workers :
            (req[w].pc = "idle" /\ req'[w].pc = "done"
             /\ req'[w].op \in {"get_entry", "delete_entry"}) =>
                /\ req'[w].eid \notin EntryIds(req'[w].kind) =>
                       (req'[w].status = 404 /\ store' = store)
                /\ (req'[w].op = "delete_entry" /\ req'[w].status = 204) =>
                       /\ req'[w].eid \in EntryIds(req'[w].kind)
                       /\ req'[w].eid \notin {x.id : x \in store'[req'[w].kind]}
       /\ \A k \in Kinds : \A x \in store'[k] :
            x.id \notin EntryIds(k) => x.id >= nextId[k]]_vars

\* an entry that resolve created and a delete removed is looked up again
C25_Witness ==
    \E w, v \in Workers :
        /\ req[w].op = "get_entry" /\ req[w].pc = "done" /\ req[w].status = 404
        /\ req[w].eid < nextId[req[w].kind]
        /\ req[v].op = "delete_entry" /\ req[v].pc = "done" /\ req[v].status = 204
        /\ req[v].kind = req[w].kind /\ req[v].eid = req[w].eid

(***************************************************************************)
(* Properties of the character attributes and the class validation         *)
(***************************************************************************)
\* C23: every persisted character has level >= 1 after any sequence of
\* create and update operations.
C23_LevelAtLeastOne == \A c \in chars : c.level >= 1

\* a create or update whose gameclass went through the class validation
Validated(w) ==
    /\ req[w].pc \in {"commit", "done"}
    /\ \/ req[w].op = "create"
       \/ /\ req[w].op = "update" /\ req[w].pre = "owned"
          /\ "gameclass" \in req[w].body.fields

\* the class list was there for the validation: cached, or fetched with success
ListAvailable(w) == req[w].hit \/ (req[w].nfetch = 1 /\ req[w].remote = 200)

\* C24: a create or update whose gameclass is not in the valid class list,
\* compared case-insensitively, fails with 400 INVALID_CLASS_NAME, and the
\* validation leaves the characters as they are. The generation of
\* src/routes/characters.py answers 400 with a plain detail string and is
\* held to the status only.
C24_InvalidClassRejected ==
    /\ [](\A w \in Workers :
            (Validated(w) /\ ListAvailable(w)
             /\ InvalidClassName(req[w].body.gameclass, ValidClasses)) =>
                /\ req[w].pc = "done" /\ req[w].status = 400
                /\ variant # "legacy" => req[w].code = "INVALID_CLASS_NAME")
    /\ [][\A w \in Workers :
            (req[w].pc = "validate" /\ req'[w].pc # "validate") =>
                UNCHANGED <<chars, links>>]_vars

\* C29: once a fetch of the class list has succeeded, every later class
\* validation completes with its verdict from the cached list and calls the
\* remote API no more; a failed fetch leaves the cache as it was.
C29_ClassListCached ==
    [][\A w \in Workers :
         (req[w].pc = "validate" /\ req'[w].pc # "validate") =>
            /\ cache.fetched =>
                   /\ req'[w].nfetch = 0
                   /\ req'[w].pc = "commit" \/ req'[w].status = 400
            /\ (req'[w].nfetch = 1 /\ req'[w].remote # 200) => cache' = cache]_vars

\* the attributes an update can set
Attributes == {"gameclass", "level"}

C27_LinksReferToEntries ==
    /\ [](\A k \in Kinds : \A p \in DOMAIN links[k] : p[2] \in EntryIds(k))
    /\ [][\A w \in Workers :
            (/\ req[w].pc = "idle" /\ req'[w].op = "delete_entry"
             /\ character_spells(req'[w].kind, req'[w].eid) # {}) =>
                /\ req'[w].status # 204
                /\ UNCHANGED <<store, links>>]_vars

\* the delete of an entry that is linked to a character was rejected
C27_Witness ==
    \E w \in Workers :
        /\ req[w].op = "delete_entry" /\ req[w].pc = "done" /\ req[w].status = 500
        /\ req[w].eid \in EntryIds(req[w].kind)
        /\ character_spells(req[w].kind, req[w].eid) # {}

\* C28: the request a miss sends is GET {base}/{endpoint}/{externalId} with
\* the endpoint of the kind and the normalized requested name as external
\* id, so misses of names with different normalized forms send different
\* requests.
C28_RemoteRequest ==
    /\ \A w \in Workers :
         Fetched(w) =>
            req[w].url = [endpoint |-> Endpoint(req[w].kind),
                          id |-> Normalize(variant, req[w].name)]
    /\ \A v, w \in Workers :
         (/\ Fetched(v) /\ Fetched(w)
          /\ Normalize(variant, req[v].name) # Normalize(variant, req[w].name)) =>
             req[v].url # req[w].url

\* a step of an add or a remove request
AssocStep(w) == req'[w].pc # req[w].pc /\ req'[w].op \in {"add", "remove"}

\* C30: an add that succeeds has inserted exactly one link row, its own, and
\* a remove that succeeds leaves exactly its own link row deleted; no step of
\* an add or a remove changes a reference entry, a character or another
\* link row, and an add or a remove that fails has changed nothing.
C30_AssociationFrame ==
    /\ [][\A w \in Workers :
            AssocStep(w) =>
               LET k == req'[w].kind
                   pair == <<req'[w].cid, req'[w].eid>>
               IN
               /\ UNCHANGED <<store, chars>>
               /\ \A j \in Kinds \ {k} : links'[j] = links[j]
               /\ links'[k] # links[k] =>
                     \/ /\ req'[w].op = "add"
                        /\ pair \notin DOMAIN links[k]
                        /\ links'[k] = InsertLink(links[k], pair[1], pair[2])
                        /\ links'[k][pair] = 1
                     \/ /\ req'[w].op = "remove"
                        /\ pair \in DOMAIN links[k]
                        /\ links'[k] = DeleteLink(links[k], pair[1], pair[2])
               /\ (req'[w].pc = "done" /\ req'[w].op = "remove") =>
                     IF req'[w].status = 204 THEN pair \notin DOMAIN links'[k]
                     ELSE links' = links]_vars
    /\ [](\A w \in Workers :
            (req[w].op = "add" /\ req[w].pc = "done") =>
                (req[w].status = 201 <=> req[w].wrote))

====
